---- MODULE Spec2Model ----
(***************************************************************************)
(* Model of the two archive tools of build-golang:                         *)
(*   scripts/create_tar.py    - the archive builder                        *)
(*   scripts/fix_tar_execs.py - the archive fixer                          *)
(* Entry names are sequences of tokens, a path segment or the separator    *)
(* "/", so that str.startswith and the "./" prefix are computed on the     *)
(* name itself.  Modes are the integers the octal literals denote.         *)
(***************************************************************************)
EXTENDS Integers, Sequences, FiniteSets, TLC

VARIABLES
    \* ---- builder (create_tar.py) ----
    argc,        \* len(sys.argv) of the builder process
    srcKind,     \* what source_dir names on disk: "missing", "file" or "dir"
    tree,        \* the objects under the source directory, each a "dir",
                 \* a "file", a "symlink" to a file or a "dirlink" (a
                 \* symbolic link to a directory)
    output,      \* the file at output_tar
    output0,     \* the file at output_tar when the process started
    cpc,         \* position of the builder
    walkStack,   \* os.walk: per level, the directories still to descend into
    dirsLeft,    \* the rest of `dirs` of the directory being visited
    filesLeft,   \* the rest of `files` of the directory being visited
    st_mode,     \* permissions on disk of the object gettarinfo read last
    cexit,       \* exit code of the builder process
    \* ---- fixer (fix_tar_execs.py) ----
    tarFile,     \* the file at tar_path
    tarFile0,    \* the file at tar_path when the running process started
    tmpFile,     \* the file at tmp_path
    fpc,         \* position of the fixer
    members,     \* src.getmembers()
    idx,         \* position of the loop in members
    exc,         \* an exception is propagating out of fix_tar
    fexit,       \* exit code of the fixer process
    lastExit,    \* exit code of the previous fixer process on this path
    runs         \* number of fixer processes started so far

cvars == <<argc, srcKind, tree, output, output0, cpc, walkStack, dirsLeft,
           filesLeft, st_mode, cexit>>

fvars == <<tarFile, tarFile0, tmpFile, fpc, members, idx, exc, fexit,
           lastExit, runs>>

vars == <<cvars, fvars>>

----------------------------------------------------------------------------
\* Bounds of the model
MaxObjects == 4
MaxEntries == 2
MaxRuns == 2

----------------------------------------------------------------------------
\* Modes (octal literals of the source)
Mode755 == 493
Mode644 == 420

DiskModes == {384, 420, 448, 493}     \* 0600 0644 0700 0755

NoFile == [exists |-> FALSE]
\* a tar.gz file: the entries written so far and whether the archive was
\* finished (end-of-archive blocks and gzip trailer written)
TarFileOf(ents, closed) == [exists |-> TRUE, ents |-> ents, closed |-> closed]
OldFile == TarFileOf(<<[name |-> <<"old">>, type |-> "file", mode |-> 384]>>, TRUE)

----------------------------------------------------------------------------
\* The source directory
Obj(path, kind) == [path |-> path, kind |-> kind]

Universe ==
    { Obj(<<"bin">>, "dir"), Obj(<<"bin">>, "file"),
      Obj(<<"bin", "go">>, "file"), Obj(<<"bin", "gofmt">>, "symlink"),
      Obj(<<"pkg">>, "dir"), Obj(<<"pkg", "tool">>, "dir"),
      Obj(<<"pkg", "tool">>, "file"),
      Obj(<<"pkg", "tool", "compile">>, "file"),
      Obj(<<"tools">>, "dir"), Obj(<<"tools">>, "file"),
      Obj(<<"tools", "x">>, "file"),
      Obj(<<"src">>, "dir"), Obj(<<"src", "bin">>, "dir"),
      Obj(<<"src", "bin", "z">>, "file"), Obj(<<"README">>, "file"),
      Obj(<<"src", "latest">>, "dirlink") }

Parent(path) == SubSeq(path, 1, Len(path) - 1)

ValidTree(T) ==
    /\ \A o \in T : Len(o.path) > 1 => Obj(Parent(o.path), "dir") \in T
    /\ \A o, p \in T : o.path = p.path => o = p

Trees == { T \in SUBSET Universe : Cardinality(T) <= MaxObjects /\ ValidTree(T) }

\* os.walk: the entries of one directory, split into dirs (directories and
\* links to directories) and files (everything else)
ChildDirs(T, root) ==
    { o \in T : Parent(o.path) = root /\ o.kind \in {"dir", "dirlink"} }
ChildFiles(T, root) ==
    { o \in T : Parent(o.path) = root /\ o.kind \notin {"dir", "dirlink"} }

\* tar.gettarinfo: the entry type of an object on disk (lstat, so a link to
\* a directory is a symlink entry)
TarType(kind) == IF kind = "dirlink" THEN "symlink" ELSE kind

----------------------------------------------------------------------------
\* Path(base_name) / rel, as a string
base_name == "go"

RECURSIVE JoinParts(_)
JoinParts(parts) ==
    IF parts = <<>> THEN <<>>
    ELSE <<"/", Head(parts)>> \o JoinParts(Tail(parts))

ArcNameFlat(base, rel) == <<base, "/", rel[Len(rel)]>>
ArcName(base, rel) == <<base>> \o JoinParts(rel)

\* the path rule of the builder
is_executable(parts) ==
    IF Len(parts) >= 2 /\ parts[1] = "bin" THEN TRUE
    ELSE IF Len(parts) >= 3 /\ parts[1] = "pkg" /\ parts[2] = "tool" THEN TRUE
    ELSE IF Len(parts) >= 1 /\ parts[1] = "tools" THEN TRUE
    ELSE FALSE

\* the mode given to a directory entry
DirModeFromDisk(diskMode) == diskMode
DirMode(diskMode) == Mode755

\* the mode given to an entry of `files`
FileMode(parts, diskMode) == IF is_executable(parts) THEN Mode755 ELSE Mode644

Entry(name, type, mode) == [name |-> name, type |-> type, mode |-> mode]

\* the two precondition checks of create_tar_with_permissions
SourceOkNoDirCheck(kind) == kind # "missing"
SourceOk(kind) == kind # "missing" /\ kind = "dir"

RECURSIVE PopEmpty(_)
PopEmpty(stack) ==
    IF stack # <<>> /\ Head(stack) = {} THEN PopEmpty(Tail(stack)) ELSE stack

----------------------------------------------------------------------------
\* Fixer: names and archive members

StartsWith(s, p) == Len(s) >= Len(p) /\ SubSeq(s, 1, Len(p)) = p

normalizeNone(name) == name
normalize(name) ==
    IF StartsWith(name, <<".", "/">>) THEN SubSeq(name, 3, Len(name)) ELSE name

Dot(name) == <<".", "/">> \o name

NameTool1 == <<"go", "/", "bin", "/", "tool1">>
NameCompile == <<"go", "/", "pkg", "/", "tool", "/", "linux_amd64", "/", "compile">>
NameMainGo == <<"go", "/", "src", "/", "main.go">>
NameSrc == <<"go", "/", "src">>
NameBin == <<"go", "/", "bin">>
NameLnk == <<"go", "/", "lnk">>

\* a member of an archive; data is the content stream, linkname the target of
\* a link (uid, gid, uname, gname and mtime are copied as they are and left
\* out)
Member(name, type, mode, data, linkname) ==
    [name |-> name, type |-> type, mode |-> mode, size |-> Len(data),
     data |-> data, linkname |-> linkname]

RegMembers ==
    { Member(n, "reg", pm[1], pm[2], "") :
        n \in {NameTool1, Dot(NameTool1), Dot(Dot(NameTool1)), NameCompile, NameMainGo},
        pm \in {<<384, <<7>>>>, <<493, <<>>>>} }

DirMembers ==
    { Member(n, "dir", m, <<>>, "") : n \in {NameSrc, Dot(NameBin)}, m \in {448, 493} }

OtherMembers ==
    { Member(NameLnk, "sym", m, <<>>, "src/main.go") : m \in {0, 511} }
      \cup { Member(<<"go", "/", "bin", "/", "fifo">>, "fifo", 384, <<>>, "") }

Members == RegMembers \cup DirMembers \cup OtherMembers

RECURSIVE SeqsUpTo(_, _)
SeqsUpTo(S, n) ==
    IF n = 0 THEN {<<>>}
    ELSE LET shorter == SeqsUpTo(S, n - 1) IN
         shorter \cup { Append(q, x) : q \in shorter, x \in S }

Archives == { TarFileOf(ents, TRUE) : ents \in SeqsUpTo(Members, MaxEntries) }

\* a file tarfile.open(path, "r:gz") can read to the end
Readable(file) == file.exists /\ file.closed

\* TarFile.addfile(m, f): copies m.size bytes of f after the header
CopyBytes(data, size) ==
    SubSeq(data, 1, IF size < Len(data) THEN size ELSE Len(data))

\* the name given to the replacement entry
WrittenNameNormalized(member) == normalize(member.name)
WrittenName(member) == member.name

\* the mode of the replacement entry
FixedMode(member) ==
    LET name == normalize(member.name) IN
    IF member.type = "dir" THEN Mode755
    ELSE IF member.type = "reg" THEN
        IF StartsWith(name, <<"go", "/", "bin", "/">>)
           \/ StartsWith(name, <<"go", "/", "pkg", "/", "tool", "/">>)
        THEN Mode755 ELSE Mode644
    ELSE IF member.mode # 0 THEN member.mode ELSE Mode644

\* the replacement entry as written to dst: a fresh TarInfo (size 0, no
\* linkname) with the member's type and the fixed mode
Rewrite(member) ==
    LET m == [name |-> WrittenName(member), type |-> member.type,
              mode |-> FixedMode(member), size |-> 0, linkname |-> ""]
        f == member.data
    IN  [name |-> m.name, type |-> m.type, mode |-> m.mode, size |-> m.size,
         data |-> IF member.type = "dir" THEN <<>> ELSE CopyBytes(f, m.size),
         linkname |-> m.linkname]

----------------------------------------------------------------------------
\* Fixer

FIdle ==
    /\ tarFile = NoFile
    /\ tarFile0 = NoFile
    /\ tmpFile = NoFile
    /\ fpc = "main"
    /\ members = <<>>
    /\ idx = 1
    /\ exc = FALSE
    /\ fexit = -1
    /\ lastExit = -1
    /\ runs = 1

CIdle ==
    /\ argc = 3
    /\ srcKind = "missing"
    /\ tree = {}
    /\ output = NoFile
    /\ output0 = NoFile
    /\ cpc = "main"
    /\ walkStack = <<>>
    /\ dirsLeft = {}
    /\ filesLeft = {}
    /\ st_mode = 0
    /\ cexit = -1

FInit ==
    /\ tarFile \in {NoFile} \cup Archives
    /\ tarFile0 = tarFile
    /\ tmpFile = NoFile
    /\ fpc = "main"
    /\ members = <<>>
    /\ idx = 1
    /\ exc = FALSE
    /\ fexit = -1
    /\ lastExit = -1
    /\ runs = 1
    /\ CIdle

\* __main__: wrong argument count
FixUsage ==
    /\ fpc = "main"
    /\ \E n \in {1, 3} : n # 2
    /\ fpc' = "exited"
    /\ fexit' = 2
    /\ UNCHANGED <<tarFile, tarFile0, tmpFile, members, idx, exc, lastExit, runs, cvars>>

\* __main__: the archive does not exist
FixNotFound ==
    /\ fpc = "main"
    /\ ~tarFile.exists
    /\ fpc' = "exited"
    /\ fexit' = 2
    /\ UNCHANGED <<tarFile, tarFile0, tmpFile, members, idx, exc, lastExit, runs, cvars>>

\* fix_tar: tempfile.mkstemp creates an empty temporary file
Mkstemp ==
    /\ fpc = "main"
    /\ tarFile.exists
    /\ tmpFile' = TarFileOf(<<>>, FALSE)
    /\ fpc' = "open"
    /\ UNCHANGED <<tarFile, tarFile0, members, idx, exc, fexit, lastExit, runs, cvars>>

\* mkstemp raises, before the try block
MkstempError ==
    /\ fpc = "main"
    /\ tarFile.exists
    /\ exc' = TRUE
    /\ fpc' = "exited"
    /\ fexit' = 1
    /\ UNCHANGED <<tarFile, tarFile0, tmpFile, members, idx, lastExit, runs, cvars>>

\* both archives are opened and the member list is read
OpenArchives ==
    /\ fpc = "open"
    /\ Readable(tarFile)
    /\ members' = tarFile.ents
    /\ idx' = 1
    /\ fpc' = "loop"
    /\ UNCHANGED <<tarFile, tarFile0, tmpFile, exc, fexit, lastExit, runs, cvars>>

\* the source is not a complete gzip tar archive: tarfile raises
OpenUnreadable ==
    /\ fpc = "open"
    /\ ~Readable(tarFile)
    /\ exc' = TRUE
    /\ fpc' = "finally"
    /\ UNCHANGED <<tarFile, tarFile0, tmpFile, members, idx, fexit, lastExit, runs, cvars>>

\* one iteration of the loop over the members
ProcessMember ==
    /\ fpc = "loop"
    /\ idx <= Len(members)
    /\ tmpFile' = [tmpFile EXCEPT !.ents = Append(@, Rewrite(members[idx]))]
    /\ idx' = idx + 1
    /\ UNCHANGED <<tarFile, tarFile0, fpc, members, exc, fexit, lastExit, runs, cvars>>

\* end of the with block: dst is closed
CloseArchives ==
    /\ fpc = "loop"
    /\ idx > Len(members)
    /\ tmpFile' = [tmpFile EXCEPT !.closed = TRUE]
    /\ fpc' = "move"
    /\ UNCHANGED <<tarFile, tarFile0, members, idx, exc, fexit, lastExit, runs, cvars>>

\* an I/O error while reading the source or writing the temporary archive,
\* or shutil.move failing before it has written to the target
FixError ==
    /\ fpc \in {"open", "loop", "move"}
    /\ exc' = TRUE
    /\ fpc' = "finally"
    /\ UNCHANGED <<tarFile, tarFile0, tmpFile, members, idx, fexit, lastExit, runs, cvars>>

\* shutil.move: os.rename succeeds
MoveRename ==
    /\ fpc = "move"
    /\ tarFile' = tmpFile
    /\ tmpFile' = NoFile
    /\ fpc' = "finally"
    /\ UNCHANGED <<tarFile0, members, idx, exc, fexit, lastExit, runs, cvars>>

\* shutil.move: os.rename raises OSError (tmp_path is on another file
\* system); copy2 opens the target for writing, which truncates it
MoveCopyOpen ==
    /\ fpc = "move"
    /\ tarFile' = TarFileOf(<<>>, FALSE)
    /\ fpc' = "copy"
    /\ UNCHANGED <<tarFile0, tmpFile, members, idx, exc, fexit, lastExit, runs, cvars>>

\* copy2 copies the content of the temporary file
MoveCopyData ==
    /\ fpc = "copy"
    /\ tarFile' = tmpFile
    /\ fpc' = "unlink"
    /\ UNCHANGED <<tarFile0, tmpFile, members, idx, exc, fexit, lastExit, runs, cvars>>

\* shutil.move: os.unlink(src) after the copy
MoveUnlink ==
    /\ fpc = "unlink"
    /\ tmpFile' = NoFile
    /\ fpc' = "finally"
    /\ UNCHANGED <<tarFile, tarFile0, members, idx, exc, fexit, lastExit, runs, cvars>>

\* the copy raises (disk full, I/O error) or copystat/unlink raises
MoveCopyError ==
    /\ fpc \in {"copy", "unlink"}
    /\ exc' = TRUE
    /\ fpc' = "finally"
    /\ UNCHANGED <<tarFile, tarFile0, tmpFile, members, idx, fexit, lastExit, runs, cvars>>

\* finally: remove the temporary file if it still exists; then __main__
\* exits with 0, or 1 when fix_tar raised
Finally ==
    /\ fpc = "finally"
    /\ tmpFile' = IF tmpFile.exists THEN NoFile ELSE tmpFile
    /\ fpc' = "exited"
    /\ fexit' = IF exc THEN 1 ELSE 0
    /\ UNCHANGED <<tarFile, tarFile0, members, idx, exc, lastExit, runs, cvars>>

\* the tool is run again on the same path
Rerun ==
    /\ fpc = "exited"
    /\ runs < MaxRuns
    /\ runs' = runs + 1
    /\ lastExit' = fexit
    /\ tarFile0' = tarFile
    /\ fpc' = "main"
    /\ members' = <<>>
    /\ idx' = 1
    /\ exc' = FALSE
    /\ fexit' = -1
    /\ UNCHANGED <<tarFile, tmpFile, cvars>>

FNext ==
    \/ FixUsage
    \/ FixNotFound
    \/ Mkstemp
    \/ MkstempError
    \/ OpenArchives
    \/ OpenUnreadable
    \/ ProcessMember
    \/ CloseArchives
    \/ FixError
    \/ MoveRename
    \/ MoveCopyOpen
    \/ MoveCopyData
    \/ MoveUnlink
    \/ MoveCopyError
    \/ Finally
    \/ Rerun

FixSpec == FInit /\ [][FNext]_vars

----------------------------------------------------------------------------
\* Builder

CInit ==
    /\ argc \in {2, 3, 4}
    /\ srcKind \in {"missing", "file", "dir"}
    /\ tree \in IF srcKind = "dir" THEN Trees ELSE {{}}
    /\ output0 \in {NoFile, OldFile}
    /\ output = output0
    /\ cpc = "main"
    /\ walkStack = <<>>
    /\ dirsLeft = {}
    /\ filesLeft = {}
    /\ st_mode = 0
    /\ cexit = -1
    /\ FIdle

\* main: wrong argument count
MainUsage ==
    /\ cpc = "main"
    /\ argc # 3
    /\ cpc' = "exited"
    /\ cexit' = 2
    /\ UNCHANGED <<argc, srcKind, tree, output, output0, walkStack, dirsLeft, filesLeft, st_mode, fvars>>

\* main -> create_tar_with_permissions, source missing or not a directory:
\* returns False, sys.exit(1)
SourceRejected ==
    /\ cpc = "main"
    /\ argc = 3
    /\ ~SourceOk(srcKind)
    /\ cpc' = "exited"
    /\ cexit' = 1
    /\ UNCHANGED <<argc, srcKind, tree, output, output0, walkStack, dirsLeft, filesLeft, st_mode, fvars>>

\* tarfile.open(output_tar, "w:gz"): creates or truncates the output
OpenTar ==
    /\ cpc = "main"
    /\ argc = 3
    /\ SourceOk(srcKind)
    /\ output' = TarFileOf(<<>>, FALSE)
    /\ cpc' = "base"
    /\ UNCHANGED <<argc, srcKind, tree, output0, walkStack, dirsLeft, filesLeft, cexit, st_mode, fvars>>

\* the base directory entry, then os.walk lists the source root
AddBase ==
    /\ cpc = "base"
    /\ \E diskMode \in DiskModes :
         /\ st_mode' = diskMode
         /\ output' = [output EXCEPT !.ents =
                         Append(@, Entry(<<base_name>>, TarType(srcKind), DirMode(diskMode)))]
    /\ walkStack' = <<>>
    /\ dirsLeft' = ChildDirs(tree, <<>>)
    /\ filesLeft' = ChildFiles(tree, <<>>)
    /\ cpc' = "walk"
    /\ UNCHANGED <<argc, srcKind, tree, output0, cexit>>
    /\ UNCHANGED fvars

\* for dir_name in dirs
AddDir ==
    /\ cpc = "walk"
    /\ \E d \in dirsLeft, diskMode \in DiskModes :
         /\ output' = [output EXCEPT !.ents =
                         Append(@, Entry(ArcName(base_name, d.path), TarType(d.kind),
                                         DirMode(diskMode)))]
         /\ st_mode' = diskMode
         /\ dirsLeft' = dirsLeft \ {d}
         \* os.walk descends into d later, unless d is a link
         /\ walkStack' = IF d.kind # "dir" THEN walkStack
                         ELSE IF walkStack = <<>> THEN <<{d}>>
                         ELSE <<Head(walkStack) \cup {d}>> \o Tail(walkStack)
    /\ UNCHANGED <<argc, srcKind, tree, output0, cpc, filesLeft, cexit>>
    /\ UNCHANGED fvars

\* for file_name in files
AddFile ==
    /\ cpc = "walk"
    /\ dirsLeft = {}
    /\ \E f \in filesLeft, diskMode \in DiskModes :
         /\ output' = [output EXCEPT !.ents =
                         Append(@, Entry(ArcName(base_name, f.path), TarType(f.kind),
                                         FileMode(f.path, diskMode)))]
         /\ st_mode' = diskMode
         /\ filesLeft' = filesLeft \ {f}
    /\ UNCHANGED <<argc, srcKind, tree, output0, cpc, walkStack, dirsLeft, cexit>>
    /\ UNCHANGED fvars

\* os.walk moves on to the next directory, depth first
WalkNext ==
    /\ cpc = "walk"
    /\ dirsLeft = {}
    /\ filesLeft = {}
    /\ PopEmpty(walkStack) # <<>>
    /\ LET stack == PopEmpty(walkStack) IN
       \E d \in Head(stack) :
         /\ dirsLeft' = ChildDirs(tree, d.path)
         /\ filesLeft' = ChildFiles(tree, d.path)
         /\ walkStack' = <<{}, Head(stack) \ {d}>> \o Tail(stack)
    /\ UNCHANGED <<argc, srcKind, tree, output, output0, cpc, cexit, st_mode, fvars>>

\* end of the walk: the archive is closed, the function returns True
CloseTar ==
    /\ cpc = "walk"
    /\ dirsLeft = {}
    /\ filesLeft = {}
    /\ PopEmpty(walkStack) = <<>>
    /\ output' = [output EXCEPT !.closed = TRUE]
    /\ walkStack' = <<>>
    /\ cpc' = "exited"
    /\ cexit' = 0
    /\ UNCHANGED <<argc, srcKind, tree, output0, dirsLeft, filesLeft, st_mode, fvars>>

\* tarfile.open raises (output not writable): caught, returns False
OpenTarError ==
    /\ cpc = "main"
    /\ argc = 3
    /\ SourceOk(srcKind)
    /\ cpc' = "exited"
    /\ cexit' = 1
    /\ UNCHANGED <<argc, srcKind, tree, output, output0, walkStack, dirsLeft, filesLeft, st_mode, fvars>>

\* an exception while the archive is being written: caught, returns False
CreateError ==
    /\ cpc \in {"base", "walk"}
    /\ cpc' = "exited"
    /\ cexit' = 1
    /\ UNCHANGED <<argc, srcKind, tree, output, output0, walkStack, dirsLeft, filesLeft, st_mode, fvars>>

CNext ==
    \/ MainUsage
    \/ SourceRejected
    \/ OpenTar
    \/ OpenTarError
    \/ AddBase
    \/ AddDir
    \/ AddFile
    \/ WalkNext
    \/ CloseTar
    \/ CreateError

Init == CInit
Next == CNext
Spec == Init /\ [][Next]_vars

----------------------------------------------------------------------------
\* Properties of the builder (checked under Spec)

\* the archive at output_tar was opened by this run
Built == output.exists /\ output # output0

\* the expected entry name of the object at a relative path
RECURSIVE NameUnder(_, _)
NameUnder(B, path) ==
    IF Len(path) = 0 THEN <<B>>
    ELSE NameUnder(B, Parent(path)) \o <<"/", path[Len(path)]>>

EntryOf(o, i) == output.ents[i].name = NameUnder(base_name, o.path)

UnderBin(p) == Len(p) >= 2 /\ p[1] = "bin"
UnderPkgTool(p) == Len(p) >= 3 /\ p[1] = "pkg" /\ p[2] = "tool"
UnderTools(p) == Len(p) >= 2 /\ p[1] = "tools"

\* C1: every regular file under the source gets mode 0755 exactly when its
\* relative path is bin/<something>, pkg/tool/<something> or lies under
\* tools/, and 0644 otherwise.
C1_ModeByPath ==
    Built =>
      \A o \in tree : \A i \in 1..Len(output.ents) :
        (o.kind = "file" /\ EntryOf(o, i)) =>
          output.ents[i].mode =
            IF UnderBin(o.path) \/ UnderPkgTool(o.path) \/ UnderTools(o.path)
            THEN 493 ELSE 420

\* C6: every directory entry of the archive has mode 0755, and the first
\* entry written is the base directory entry.
C6_DirModes ==
    Built =>
      /\ \A i \in 1..Len(output.ents) :
           output.ents[i].type = "dir" => output.ents[i].mode = 493
      /\ Len(output.ents) >= 1 =>
           output.ents[1] = [name |-> <<base_name>>, type |-> "dir", mode |-> 493]
      /\ \A i \in 2..Len(output.ents) : output.ents[i].name # <<base_name>>

\* a directory whose permissions on disk are 0700 was just written as 0755
C6_Witness ==
    /\ cpc = "walk"
    /\ Len(output.ents) >= 2
    /\ output.ents[Len(output.ents)].type = "dir"
    /\ output.ents[Len(output.ents)].mode = 493
    /\ st_mode = 448

C8_SourceRejected ==
    (argc = 3 /\ srcKind # "dir") =>
      /\ output = output0
      /\ cpc \in {"main", "exited"}
      /\ cpc = "exited" => cexit = 1

\* the builder has exited on a source that is a regular file, with an older
\* output file in place
C8_Witness ==
    /\ argc = 3
    /\ srcKind = "file"
    /\ cpc = "exited"
    /\ cexit = 1
    /\ output0 = OldFile
    /\ output = OldFile

----------------------------------------------------------------------------
\* Properties of the fixer (checked under FixSpec)

FixSucceeded == fpc = "exited" /\ fexit = 0

\* a name with one leading "./" removed
Stripped(n) ==
    IF Len(n) >= 2 /\ n[1] = "." /\ n[2] = "/"
    THEN [k \in 1..(Len(n) - 2) |-> n[k + 2]] ELSE n

UnderGoBin(n) ==
    Len(n) >= 4 /\ n[1] = "go" /\ n[2] = "/" /\ n[3] = "bin" /\ n[4] = "/"
UnderGoPkgTool(n) ==
    /\ Len(n) >= 6
    /\ n[1] = "go" /\ n[2] = "/" /\ n[3] = "pkg" /\ n[4] = "/"
    /\ n[5] = "tool" /\ n[6] = "/"

ModeRule(in, out) ==
    /\ in.type = "dir" => out.mode = 493
    /\ in.type = "reg" =>
         out.mode = IF UnderGoBin(Stripped(in.name)) \/ UnderGoPkgTool(Stripped(in.name))
                    THEN 493 ELSE 420
    /\ (in.type = "reg" /\ in.name = NameTool1) => out.mode = 493
    /\ (in.type = "reg" /\ in.name = NameCompile) => out.mode = 493
    /\ (in.type = "reg" /\ in.name = NameMainGo) => out.mode = 420

\* C2: a directory entry is written with mode 0755; a regular file entry
\* with 0755 exactly when its name, one leading "./" removed, starts with
\* go/bin/ or go/pkg/tool/, and with 0644 otherwise.
C2_FixedModes ==
    /\ fpc \in {"loop", "move", "copy", "unlink"} =>
         /\ Len(tmpFile.ents) = idx - 1
         /\ \A i \in 1..Len(tmpFile.ents) : ModeRule(members[i], tmpFile.ents[i])
    /\ FixSucceeded =>
         /\ Len(tarFile.ents) = Len(tarFile0.ents)
         /\ \A i \in 1..Len(tarFile.ents) : ModeRule(tarFile0.ents[i], tarFile.ents[i])

\* a fixed archive in which ./go/bin/tool1 (0600 before) is 0755 and a
\* directory that was 0700 is 0755
C2_Witness ==
    /\ FixSucceeded
    /\ \E i \in 1..Len(tarFile.ents) :
         /\ tarFile0.ents[i].type = "reg"
         /\ tarFile0.ents[i].name = Dot(NameTool1)
         /\ tarFile0.ents[i].mode = 384
         /\ tarFile.ents[i].mode = 493
    /\ \E i \in 1..Len(tarFile.ents) :
         /\ tarFile0.ents[i].type = "dir"
         /\ tarFile0.ents[i].mode = 448
         /\ tarFile.ents[i].mode = 493

\* C3: after a successful run every regular file entry has the size and the
\* bytes of the corresponding input entry.
C3_SameContent ==
    FixSucceeded =>
      /\ Len(tarFile.ents) = Len(tarFile0.ents)
      /\ \A i \in 1..Len(tarFile.ents) :
           tarFile0.ents[i].type = "reg" =>
             /\ tarFile.ents[i].size = tarFile0.ents[i].size
             /\ tarFile.ents[i].data = tarFile0.ents[i].data

\* C4: after a successful run an input entry ./X is named X, and no entry
\* name starts with "./".
C4_NamesStripped ==
    FixSucceeded =>
      /\ Len(tarFile.ents) = Len(tarFile0.ents)
      /\ \A i \in 1..Len(tarFile.ents) :
           /\ tarFile.ents[i].name = Stripped(tarFile0.ents[i].name)
           /\ ~(Len(tarFile.ents[i].name) >= 2 /\ tarFile.ents[i].name[1] = "."
                /\ tarFile.ents[i].name[2] = "/")

\* C5: when the fixer has failed, the archive is what it was before the call
\* and the temporary file does not exist.
C5_FailureLeavesOriginal ==
    (fpc = "exited" /\ fexit = 1) =>
      /\ tarFile = tarFile0
      /\ ~tmpFile.exists

C10_OtherModesKept ==
    fpc \in {"loop", "move", "copy", "unlink"} =>
      \A i \in 1..Len(tmpFile.ents) :
        members[i].type \notin {"dir", "reg"} =>
          tmpFile.ents[i].mode = members[i].mode

====
